---- MODULE Spec2Model ----
(***************************************************************************)
(* Model of the cdsapi retrieval engine (src/src/client.rs and helpers):   *)
(* protocol selection, the Legacy and Modern submit/poll state machines,   *)
(* the base-path fallback and the resumable downloader.                    *)
(*                                                                         *)
(* Representation of text.  A credential is a sequence of characters.      *)
(* A URL, a path or an error message is a sequence of segments: "/" is     *)
(* always a segment of its own and no other segment contains a "/", so     *)
(* that trimming '/', prefix, suffix and substring tests on segments agree *)
(* with the same tests on characters.  An Option<T> is a sequence of       *)
(* length 0 (None) or 1 (Some).  File sizes are counted in bytes.          *)
(*                                                                         *)
(* cfg is the Client (read-only after construction).  pc, loc, rr, dl,     *)
(* file, disk, net and result are the stack frame, target file and         *)
(* observer's log of the call that is running; other holds the same for a  *)
(* second call on the same Client while that call is not scheduled (None   *)
(* when a single call is explored).                                        *)
(***************************************************************************)
EXTENDS Integers, Sequences, FiniteSets, TLC

VARIABLES cfg, pc, loc, rr, dl, file, disk, net, result, other

vars == <<cfg, pc, loc, rr, dl, file, disk, net, result, other>>

\* ------------------------------------------------------------------ bounds
MaxRetry == 2
MaxPolls == 1
MaxLen == 3
MaxKeyLen == 4
MaxPath == 3
MaxSteps == 4

\* ------------------------------------------------------- Option and text
None == <<>>

Some(x) == <<x>>

IsSome(o) == Len(o) = 1

StartsWith(s, p) == Len(s) >= Len(p) /\ SubSeq(s, 1, Len(p)) = p

EndsWith(s, p) == Len(s) >= Len(p) /\ SubSeq(s, Len(s) - Len(p) + 1, Len(s)) = p

Contains(s, p) == \E i \in 0..(Len(s) - Len(p)) : SubSeq(s, i + 1, i + Len(p)) = p

RECURSIVE TrimEndSlash(_)
TrimEndSlash(s) ==
    IF s # <<>> /\ s[Len(s)] = "/" THEN TrimEndSlash(SubSeq(s, 1, Len(s) - 1)) ELSE s

RECURSIVE TrimStart(_)
TrimStart(s) == IF s # <<>> /\ s[1] = " " THEN TrimStart(Tail(s)) ELSE s

RECURSIVE TrimEnd(_)
TrimEnd(s) == IF s # <<>> /\ s[Len(s)] = " " THEN TrimEnd(SubSeq(s, 1, Len(s) - 1)) ELSE s

Trim(s) == TrimEnd(TrimStart(s))

\* ---------------------------------------------------------- util.rs
retriable_status(code) == code \in {500, 502, 503, 504, 429, 408}

\* Durations are in milliseconds; 1.5 * current is exact on the values used.
backoff_NoCap(current, max) ==
    LET scaled == (current * 3) \div 2
    IN IF scaled > 1000 THEN scaled ELSE 1000

backoff(current, max) ==
    LET scaled == (current * 3) \div 2
        next == IF scaled > 1000 THEN scaled ELSE 1000
    IN IF next > max THEN max ELSE next

splitn2_LastColon(k) ==
    IF \E i \in 1..Len(k) : k[i] = ":"
    THEN LET i == CHOOSE j \in 1..Len(k) : k[j] = ":" /\ \A h \in (j + 1)..Len(k) : k[h] # ":"
         IN <<SubSeq(k, 1, i - 1), SubSeq(k, i + 1, Len(k))>>
    ELSE <<k>>

\* splitn(2, ':'): the part before the first colon and the whole rest.
splitn2(k) ==
    IF \E i \in 1..Len(k) : k[i] = ":"
    THEN LET i == CHOOSE j \in 1..Len(k) : k[j] = ":" /\ \A h \in 1..(j - 1) : k[h] # ":"
         IN <<SubSeq(k, 1, i - 1), SubSeq(k, i + 1, Len(k))>>
    ELSE <<k>>

split_key_basic(k) ==
    LET parts == splitn2(k)
    IN IF Len(parts) = 2 /\ Trim(parts[1]) # <<>> /\ Trim(parts[2]) # <<>>
       THEN Some(<<Trim(parts[1]), Trim(parts[2])>>)
       ELSE None

urljoin(base, path) ==
    IF StartsWith(path, <<"http:", "/", "/">>) \/ StartsWith(path, <<"https:", "/", "/">>)
    THEN path
    ELSE IF StartsWith(path, <<"/">>)
         THEN TrimEndSlash(base) \o path
         ELSE TrimEndSlash(base) \o <<"/">> \o path

append_query(u, params) == u \o <<IF Contains(u, <<"?">>) THEN "&" ELSE "?">> \o params

api_v2_variant(base) ==
    LET b == TrimEndSlash(base)
    IN IF EndsWith(b, <<"/", "api">>)
       THEN Some(b \o <<"/", "v2">>)
       ELSE IF ~Contains(b, <<"/", "api", "/">>) /\ ~EndsWith(b, <<"/", "api", "/", "v2">>)
            THEN Some(b \o <<"/", "api", "/", "v2">>)
            ELSE None

\* An error's text mentions "HTTP 404": the segment "HTTP " followed by "404".
extract_http_status(msg) == IF Contains(msg, <<"HTTP ", "404">>) THEN Some(404) ELSE None

\* ---------------------------------------------------------- HTTP values
TextBody(t) == [fmt |-> "text", text |-> t]

JsonBody(o) == [fmt |-> "json", obj |-> o]

\* A response of the transport: ok = FALSE is a reqwest::Error (no status).
Response(s, b) == [ok |-> TRUE, status |-> s, body |-> b]

TransportError == [ok |-> FALSE, status |-> 0, body |-> TextBody(<<>>)]

\* A missing field of a JSON object deserializes to None (#[serde(default)]).
Get(o, f) == IF f \in DOMAIN o THEN Some(o[f]) ELSE None

GetText(o, f) == IF f \in DOMAIN o THEN o[f] ELSE <<>>

StatusText(s) ==
    CASE s = 200 -> "200" [] s = 206 -> "206" [] s = 400 -> "400" [] s = 401 -> "401"
      [] s = 403 -> "403" [] s = 404 -> "404" [] s = 408 -> "408" [] s = 429 -> "429"
      [] s = 500 -> "500" [] s = 502 -> "502" [] s = 503 -> "503" [] s = 504 -> "504"
      [] OTHER -> "???"

is_success(s) == 200 <= s /\ s <= 299

Ok(v) == [ok |-> TRUE, val |-> v, msg |-> <<>>]

Err(m) == [ok |-> FALSE, val |-> <<>>, msg |-> m]

\* ---------------------------------------------------------- error.rs
format_cds_error(status, u, e) ==
    LET title == IF "title" \in DOMAIN e THEN e.title ELSE GetText(e, "message")
        detail == GetText(e, "detail")
        trace == IF GetText(e, "trace_id") = <<>> THEN <<"(none)">> ELSE e.trace_id
        status_in_body == IF "status" \in DOMAIN e THEN e.status ELSE status
        looks_like_licence ==
            /\ status = 403
            /\ \/ Contains(title, <<"required licences">>)
               \/ Contains(detail, <<"required licences">>)
               \/ Contains(detail, <<"required licence">>)
               \/ Contains(detail, <<"manage-licences">>)
        link == IF \E i \in 1..Len(detail) : detail[i] = "https:"
                THEN LET i == CHOOSE j \in 1..Len(detail) :
                                  detail[j] = "https:" /\ \A h \in 1..(j - 1) : detail[h] # "https:"
                     IN SubSeq(detail, i, Len(detail))
                ELSE <<"https:", "/", "/", "cds.climate.copernicus.eu", "/", "how-to-api">>
    IN IF looks_like_licence
       THEN <<"CDS returned 403: required dataset licence(s) have not been accepted. Open: ">>
            \o link \o <<" Server message: ">> \o title \o <<" trace_id: ">> \o trace
       ELSE IF status = 401 \/ status = 403
       THEN <<"CDS authentication/authorization failed (", "HTTP ", StatusText(status_in_body),
              "). Server message: ">> \o title \o <<"\n">> \o detail \o <<" kind: ">>
            \o GetText(e, "type") \o <<" instance: ">> \o GetText(e, "instance")
            \o <<" trace_id: ">> \o trace \o <<" request: ">> \o u
       ELSE IF status = 404
       THEN <<"CDS API endpoint not found (", "HTTP ", "404", "). Server message: ">>
            \o title \o <<"\n">> \o detail \o <<" request: ">> \o u
       ELSE <<"API request failed: ", "HTTP ", StatusText(status_in_body), " for url (">>
            \o u \o <<")\n">> \o title \o <<"\n">> \o detail

\* ---------------------------------------------------------- legacy.rs
ParseApiError(e) == [message |-> Get(e, "message"), reason |-> Get(e, "reason")]

\* ParseApiReply with an empty request_id where the reply has none.
ParseApiReply_DefaultId(body) ==
    IF body.fmt = "json" /\ "state" \in DOMAIN body.obj
    THEN Some([state |-> body.obj.state,
               request_id |-> IF "request_id" \in DOMAIN body.obj
                              THEN Get(body.obj, "request_id") ELSE Some(""),
               location |-> Get(body.obj, "location"),
               content_length |-> Get(body.obj, "content_length"),
               result |-> Get(body.obj, "result"),
               error |-> IF "error" \in DOMAIN body.obj
                         THEN Some(ParseApiError(body.obj.error)) ELSE None])
    ELSE None

\* serde's reading of ApiReply: state is required, the rest is optional.
ParseApiReply(body) ==
    IF body.fmt = "json" /\ "state" \in DOMAIN body.obj
    THEN Some([state |-> body.obj.state,
               request_id |-> Get(body.obj, "request_id"),
               location |-> Get(body.obj, "location"),
               content_length |-> Get(body.obj, "content_length"),
               result |-> Get(body.obj, "result"),
               error |-> IF "error" \in DOMAIN body.obj
                         THEN Some(ParseApiError(body.obj.error)) ELSE None])
    ELSE None

ParseApiResultLocation(v) ==
    IF "location" \in DOMAIN v /\ "content_length" \in DOMAIN v
    THEN Some([location |-> v.location, content_length |-> v.content_length])
    ELSE None

RemoteFile(l, n) == [location |-> l, content_length |-> n]

\* remote_file_from_reply reading the top-level fields before the nested result.
remote_file_from_reply_TopLevelFirst(r, base_url) ==
    IF IsSome(r.location) /\ IsSome(r.content_length)
    THEN Ok(RemoteFile(urljoin(base_url, r.location[1]), r.content_length[1]))
    ELSE IF IsSome(r.result) /\ IsSome(ParseApiResultLocation(r.result[1]))
         THEN LET v == ParseApiResultLocation(r.result[1])[1]
              IN Ok(RemoteFile(urljoin(base_url, v.location), v.content_length))
         ELSE Err(<<"missing download info in API reply">>)

\* The nested result when it parses as ApiResultLocation, else the top-level
\* location and content_length, else an error.
remote_file_from_reply(r, base_url) ==
    IF IsSome(r.result) /\ IsSome(ParseApiResultLocation(r.result[1]))
    THEN LET v == ParseApiResultLocation(r.result[1])[1]
         IN Ok(RemoteFile(urljoin(base_url, v.location), v.content_length))
    ELSE IF IsSome(r.location) /\ IsSome(r.content_length)
         THEN Ok(RemoteFile(urljoin(base_url, r.location[1]), r.content_length[1]))
         ELSE Err(<<"missing download info in API reply">>)

\* ---------------------------------------------------------- processing.rs
ParseLinks(o) == IF "links" \in DOMAIN o THEN o.links ELSE <<>>

ParseProcessingJob(body) ==
    IF body.fmt = "json"
    THEN Some([job_id |-> IF "job_id" \in DOMAIN body.obj
                          THEN Some(body.obj.job_id) ELSE Get(body.obj, "jobID"),
               links |-> ParseLinks(body.obj)])
    ELSE None

ParseProcessingJobStatus(body) ==
    IF body.fmt = "json" /\ "status" \in DOMAIN body.obj
    THEN Some([status |-> body.obj.status, links |-> ParseLinks(body.obj)])
    ELSE None

ParseProcessingResults(body) ==
    IF body.fmt = "json" /\ "asset" \in DOMAIN body.obj
       /\ "href" \in DOMAIN body.obj.asset /\ "size" \in DOMAIN body.obj.asset
    THEN Some(body.obj.asset)
    ELSE None

\* links.iter().find(|l| l.rel == Some(rel)).map(|l| l.href)
FindLink(links, rel) ==
    IF \E i \in 1..Len(links) : links[i].rel = Some(rel)
    THEN LET i == CHOOSE j \in 1..Len(links) :
                      links[j].rel = Some(rel) /\ \A h \in 1..(j - 1) : links[h].rel # Some(rel)
         IN Some(links[i].href)
    ELSE None

monitor_url(job) == FindLink(job.links, "monitor")

results_url(job_status) == FindLink(job_status.links, "results")

to_remote_file(asset, u) ==
    IF Trim(asset.href) = <<>>
    THEN Err(<<"missing results asset href">>)
    ELSE Ok(RemoteFile(urljoin(u, Trim(asset.href)), asset.size))

\* ---------------------------------------------------------- client.rs
apply_auth_Untrimmed(k) ==
    IF IsSome(split_key_basic(k))
    THEN [scheme |-> "basic", user |-> split_key_basic(k)[1][1], secret |-> split_key_basic(k)[1][2]]
    ELSE [scheme |-> "PRIVATE-TOKEN", user |-> <<>>, secret |-> k]

apply_auth(k) ==
    IF IsSome(split_key_basic(k))
    THEN [scheme |-> "basic", user |-> split_key_basic(k)[1][1], secret |-> split_key_basic(k)[1][2]]
    ELSE [scheme |-> "PRIVATE-TOKEN", user |-> <<>>, secret |-> Trim(k)]

\* The reply of api_json once robust_request has returned Ok(resp).
\* parsed is the body deserialized into the expected type, None when that fails.
api_json(resp, u, parsed) ==
    IF ~is_success(resp.status)
    THEN IF resp.body.fmt = "json"
         THEN Err(format_cds_error(resp.status, u, resp.body.obj))
         ELSE Err(<<"API request failed: ", "HTTP ", StatusText(resp.status), " for url (">>
                  \o u \o <<")\n">> \o resp.body.text)
    ELSE IF IsSome(parsed)
         THEN Ok(parsed[1])
         ELSE Err(<<"failed to parse API JSON (url=">> \o u
                  \o <<", status=", StatusText(resp.status), ")">>)

robust_request_OffByOne(tries, retry_max, resp) ==
    IF resp.ok /\ ~retriable_status(resp.status)
    THEN [next |-> "ok", tries |-> tries]
    ELSE IF tries + 1 > retry_max
         THEN [next |-> IF resp.ok THEN "ok" ELSE "err", tries |-> tries + 1]
         ELSE [next |-> "continue", tries |-> tries + 1]

\* One iteration of robust_request's loop on the outcome resp of f():
\* "continue" sleeps sleep_max and calls f() again, "ok" returns Ok(resp),
\* "err" returns the transport error.
robust_request(tries, retry_max, resp) ==
    IF resp.ok
    THEN IF retriable_status(resp.status)
         THEN IF tries + 1 >= retry_max
              THEN [next |-> "ok", tries |-> tries + 1]
              ELSE [next |-> "continue", tries |-> tries + 1]
         ELSE [next |-> "ok", tries |-> tries]
    ELSE IF tries + 1 >= retry_max
         THEN [next |-> "err", tries |-> tries + 1]
         ELSE [next |-> "continue", tries |-> tries + 1]

\* client.rs:303, base.contains("/api/v2"): the segment after "/api/" only
\* has to begin with "v2".
V2Prefixed == {"v2", "v2beta"}

ContainsApiV2(base) ==
    \E i \in 1..(Len(base) - 3) :
        /\ SubSeq(base, i, i + 2) = <<"/", "api", "/">>
        /\ base[i + 3] \in V2Prefixed

Protocol(k) == IF IsSome(split_key_basic(k)) THEN "legacy" ELSE "modern"

Request(method, u, range, k) ==
    [method |-> method, url |-> u, range |-> range, auth |-> apply_auth(k)]

\* ------------------------------------------------- inputs and environment
Host == <<"https:", "/", "/", "h">>

Urls == {Host \o <<"/", "api">>, Host \o <<"/", "api", "/">>, Host,
         Host \o <<"/", "api", "/", "v2">>, Host \o <<"/", "api", "/", "x">>}

Keys == {<<" ", "u", ":", "p">>, <<"t", " ">>, <<"u", ":">>}

Dataset == <<"d">>

Absent == -1

AbsLocation == <<"https:", "/", "/", "s", "/", "f">>

Monitor == Host \o <<"/", "jobs", "/", "j1">>

FailResponses ==
    { TransportError,
      Response(500, TextBody(<<"oops">>)),
      Response(404, TextBody(<<"not found">>)),
      Response(400, TextBody(<<"see ", "HTTP ", "404">>)),
      Response(400, JsonBody([title |-> <<"bad request">>])),
      Response(200, TextBody(<<"<html>">>)) }

InProgressReplies ==
    { [state |-> "queued", request_id |-> "r1"],
      [state |-> "running", request_id |-> "r2",
       location |-> <<"g">>, content_length |-> 1],
      [state |-> "queued"] }

TerminalReplies ==
    { [state |-> "completed",
       result |-> [location |-> AbsLocation, content_length |-> 2]],
      [state |-> "completed",
       result |-> [location |-> <<"/", "f">>, content_length |-> 1],
       location |-> <<"g">>, content_length |-> 2],
      [state |-> "completed", result |-> [location |-> <<"f">>],
       location |-> <<"g">>, content_length |-> 2],
      [state |-> "completed"],
      [state |-> "failed", error |-> [message |-> "m", reason |-> "r"]],
      [state |-> "weird"] }

\* The answers explored when two calls run on one Client.
PairResponses ==
    { TransportError,
      Response(404, TextBody(<<"not found">>)),
      Response(200, JsonBody([state |-> "queued", request_id |-> "r1"])),
      Response(200, JsonBody([state |-> "completed",
                              result |-> [location |-> AbsLocation, content_length |-> 2]])) }

Served(rs) == IF other = None THEN rs ELSE rs \cap PairResponses

\* A backend keeps a job in progress for at most MaxPolls polls.
LegacyResponses ==
    Served(FailResponses
           \cup {Response(200, JsonBody(o)) : o \in TerminalReplies}
           \cup IF Len(net.seen) <= MaxPolls
                THEN {Response(200, JsonBody(o)) : o \in InProgressReplies} ELSE {})

ExecutionResponses ==
    FailResponses
    \cup { Response(200, JsonBody(o)) : o \in
           { [job_id |-> "abc",
              links |-> <<[rel |-> Some("self"), href |-> Host],
                          [rel |-> Some("monitor"), href |-> Monitor]>>],
             [jobID |-> "abc"],
             [links |-> <<[rel |-> None, href |-> Host]>>] } }

StatusResponses ==
    FailResponses
    \cup { Response(200, JsonBody(o)) : o \in
           { [status |-> "successful",
              links |-> <<[rel |-> Some("results"), href |-> Host \o <<"/", "res">>]>>],
             [status |-> "successful"],
             [status |-> "failed"],
             [status |-> "rejected"],
             [status |-> "dismissed"],
             [status |-> "deleted"],
             [status |-> "weird"] } }
    \cup IF Len(net.seen) < MaxPolls
         THEN {Response(200, JsonBody(o)) : o \in {[status |-> "accepted"], [status |-> "running"]}}
         ELSE {}

ResultsResponses ==
    FailResponses
    \cup { Response(200, JsonBody([asset |-> a])) : a \in
           { [href |-> AbsLocation, size |-> 2],
             [href |-> <<" ", "f">>, size |-> 1],
             [href |-> <<" ">>, size |-> 1] } }

DownloadResponses ==
    { TransportError, Response(500, TextBody(<<>>)), Response(404, TextBody(<<>>)),
      Response(200, TextBody(<<>>)) }

MaxChunk == 2

\* A response body is at most MaxExtra bytes longer than content_length.
MaxExtra == 1

Kinds == {"submit", "submit_alt", "poll", "execute", "status", "results", "request"}

Loc0 == [proto |-> "", base_url |-> <<>>, alt_base |-> <<>>, e |-> <<>>, reply |-> None,
         sleep |-> 0, monitor_url |-> <<>>, results_url |-> <<>>]

Dl0 == [downloaded |-> 0, mode_append |-> FALSE, range_from |-> None, tries |-> 0]

Rr0 == [tries |-> 0, req |-> None]

\* The observer's log of a call: the last request sent and the last response
\* received, requests and sleeps counted by kind, the statuses answered to
\* the robust_request in progress (0 for a transport failure) and its sleeps,
\* the job states reported by the backend, the read errors of the download
\* streams, the initial state of the target.
Net0(d) == [last |-> None, resp |-> None, sent |-> [k \in Kinds |-> 0], read_errors |-> 0,
            slept |-> [k \in {"poll", "retry", "download"} |-> 0],
            last_sleep |-> None,
            call |-> [kind |-> "", statuses |-> <<>>, slept |-> 0],
            seen |-> <<>>, disk0 |-> d]

NetCall(n, kind) == [n EXCEPT !.call = [kind |-> kind, statuses |-> <<>>, slept |-> 0]]

NetSend(n, kind, req, resp) ==
    [n EXCEPT !.last = Some(req), !.resp = Some(resp), !.sent[kind] = @ + 1,
              !.call.statuses = Append(@, resp.status)]

NetSleep(n, kind, d) ==
    [n EXCEPT !.slept[kind] = @ + 1, !.last_sleep = Some(d),
              !.call.slept = IF kind = "retry" THEN @ + 1 ELSE @]

NetSeen(n, st) == [n EXCEPT !.seen = Append(@, st)]

NetReadError(n) == [n EXCEPT !.read_errors = @ + 1]

\* ------------------------------------------------------------ transitions
Goto(p, l, r, d, f, k, n, res) ==
    /\ pc' = p
    /\ loc' = l
    /\ rr' = r
    /\ dl' = d
    /\ file' = f
    /\ disk' = k
    /\ net' = n
    /\ result' = res
    /\ UNCHANGED <<cfg, other>>

\* A function returns: the call is over with result res.
Done(res, l, n) == Goto("done", l, rr, dl, file, disk, n, Some(res))

\* robust_request sleeps sleep_max and calls f() again (client.rs:509, 520).
Retry(o, n) ==
    Goto(pc, loc, [rr EXCEPT !.tries = o.tries], dl, file, disk,
         NetSleep(n, "retry", cfg.sleep_max), result)

\* api_json(method, u, ..) starts robust_request with tries = 0.
Call_SharedTries(p, method, u, l, n) ==
    Goto(p, l, [tries |-> IF other = None THEN 0 ELSE other[1].rr.tries,
                req |-> Some(Request(method, u, None, cfg.key))],
         dl, file, disk, NetCall(n, p), result)

Call(p, method, u, l, n) ==
    Goto(p, l, [tries |-> 0, req |-> Some(Request(method, u, None, cfg.key))],
         dl, file, disk, NetCall(n, p), result)

\* The outcome of one f() inside api_json: still pending (robust_request
\* loops) or the Result that api_json returns.
ApiResult(resp, parsed) ==
    LET o == robust_request(rr.tries, cfg.retry_max, resp)
    IN [o |-> o,
        pending |-> o.next = "continue",
        res |-> IF o.next = "ok" THEN api_json(resp, rr.req[1].url, parsed)
                ELSE Err(<<"could not connect">>)]

\* download(), client.rs:335-345: measure the target, choose fresh or resume.
DownloadInit(k, content_length) ==
    IF k # Absent
    THEN [downloaded |-> k, mode_append |-> k < content_length,
          range_from |-> IF k < content_length THEN Some(k) ELSE None, tries |-> 0]
    ELSE Dl0

Resume_FromCounter(d, k) ==
    [d EXCEPT !.tries = @ + 1, !.range_from = Some(d.downloaded), !.mode_append = TRUE]

\* client.rs:397-399 and 426-428: after an interrupted or short stream the
\* size on disk is re-measured and becomes the offset of the next request.
Resume(d, k) ==
    [d EXCEPT !.tries = @ + 1, !.downloaded = k, !.range_from = Some(k), !.mode_append = TRUE]

TransferIncomplete(d, f) ==
    Err(<<"download failed: downloaded ", d.downloaded, " byte(s) out of ", f.content_length>>)

\* The head of 'download_attempt (client.rs:363-373): another attempt while
\* tries < retry_max, else the bail! of client.rs:435.
Attempt(d, f, l, n, k) ==
    IF d.tries < cfg.retry_max
    THEN Goto("request", l,
              [tries |-> 0, req |-> Some(Request("GET", f.location, d.range_from, cfg.key))],
              d, Some(f), k, NetCall(n, "request"), result)
    ELSE Goto("done", l, rr, d, Some(f), k, n, Some(TransferIncomplete(d, f)))

BeginDownload(f, l, n) == Attempt(DownloadInit(disk, f.content_length), f, l, n, disk)

Return_AlwaysDownload(f, l, n) == BeginDownload(f, l, n)

\* The tail of retrieve_*: download when a target was supplied, return file.
Return(f, l, n) ==
    IF cfg.target
    THEN BeginDownload(f, l, n)
    ELSE Goto("done", l, rr, dl, Some(f), disk, n, Some(Ok(f)))

Resolve(r, l, n) == IF r.ok THEN Return(r.val, l, n) ELSE Done(Err(r.msg), l, n)

FailedMessage_NoReason(reply) ==
    LET msg == IF IsSome(reply.error) /\ IsSome(reply.error[1].message)
               THEN reply.error[1].message[1] ELSE "request failed"
    IN <<msg, "", "">>

\* The text of the bail! of client.rs:207-212: "{msg}{sep}{reason}".
FailedMessage(reply) ==
    LET msg == IF IsSome(reply.error) /\ IsSome(reply.error[1].message)
               THEN reply.error[1].message[1] ELSE "request failed"
        reason == IF IsSome(reply.error) /\ IsSome(reply.error[1].reason)
                  THEN reply.error[1].reason[1] ELSE ""
    IN <<msg, IF reason = "" THEN "" ELSE ". ", reason>>

LegacyLoop_NoSleep(reply, l0, n0) ==
    LET l == [l0 EXCEPT !.reply = Some(reply)]
        n == NetSeen(n0, reply.state)
    IN CASE reply.state = "completed" ->
              Resolve(remote_file_from_reply(reply, l.base_url), l, n)
         [] reply.state \in {"queued", "running"} ->
              IF reply.request_id = None
              THEN Done(Err(<<"missing request_id while state=", reply.state>>), l, n)
              ELSE Call("poll", "GET",
                        TrimEndSlash(l.base_url) \o <<"/", "tasks", "/", reply.request_id[1]>>,
                        l, n)
         [] reply.state = "failed" -> Done(Err(FailedMessage(reply)), l, n)
         [] OTHER -> Done(Err(<<"unknown API state [", reply.state, "]">>), l, n)

\* One turn of retrieve_legacy's loop (client.rs:171-216) on reply.
LegacyLoop(reply, l0, n0) ==
    LET l == [l0 EXCEPT !.reply = Some(reply)]
        n == NetSeen(n0, reply.state)
    IN CASE reply.state = "completed" ->
              Resolve(remote_file_from_reply(reply, l.base_url), l, n)
         [] reply.state \in {"queued", "running"} ->
              IF reply.request_id = None
              THEN Done(Err(<<"missing request_id while state=", reply.state>>), l, n)
              ELSE Call("poll", "GET",
                        TrimEndSlash(l.base_url) \o <<"/", "tasks", "/", reply.request_id[1]>>,
                        [l EXCEPT !.sleep = backoff(l.sleep, cfg.sleep_max)],
                        NetSleep(n, "poll", l.sleep))
         [] reply.state = "failed" -> Done(Err(FailedMessage(reply)), l, n)
         [] OTHER -> Done(Err(<<"unknown API state [", reply.state, "]">>), l, n)

\* LegacySubmitted entering the poll loop whatever wait_until_complete says.
LegacySubmitted_AlwaysWaits(base_url, reply, n) ==
    LET l == [loc EXCEPT !.base_url = base_url]
    IN LegacyLoop(reply, [l EXCEPT !.sleep = 1000], n)

\* retrieve_legacy from the return of post_with_base_fallback on.
LegacySubmitted(base_url, reply, n) ==
    LET l == [loc EXCEPT !.base_url = base_url]
    IN IF ~cfg.wait_until_complete
       THEN Resolve(remote_file_from_reply(reply, base_url),
                    [l EXCEPT !.reply = Some(reply)], NetSeen(n, reply.state))
       ELSE LegacyLoop(reply, [l EXCEPT !.sleep = 1000], n)

Retrieve ==
    /\ pc = "idle"
    /\ cfg.entry = "retrieve"
    /\ LET base == TrimEndSlash(cfg.url)
       IN IF Protocol(cfg.key) = "legacy"
          THEN Call("submit", "POST", base \o <<"/", "resources", "/">> \o Dataset,
                    [loc EXCEPT !.proto = "legacy", !.base_url = base], net)
          ELSE Call("execute", "POST",
                    base \o <<"/", "retrieve", "/", "v1">>
                         \o <<"/", "processes", "/">> \o Dataset \o <<"/", "execution">>,
                    [loc EXCEPT !.proto = "modern", !.base_url = base], net)

\* post_with_base_fallback, the POST to {base}/resources/{dataset}.
Submit ==
    /\ pc = "submit"
    /\ \E resp \in LegacyResponses :
         LET a == ApiResult(resp, ParseApiReply(resp.body))
             n == NetSend(net, "submit", rr.req[1], resp)
             base == loc.base_url
         IN IF a.pending THEN Retry(a.o, n)
            ELSE IF a.res.ok THEN LegacySubmitted(base, a.res.val, n)
            ELSE IF /\ extract_http_status(a.res.msg) = Some(404)
                    /\ ~ContainsApiV2(base)
                    /\ IsSome(api_v2_variant(base))
                 THEN Call("submit_alt", "POST",
                           api_v2_variant(base)[1] \o <<"/", "resources", "/">> \o Dataset,
                           [loc EXCEPT !.alt_base = api_v2_variant(base)[1], !.e = a.res.msg], n)
                 ELSE Done(Err(a.res.msg), loc, n)

\* SubmitAlt handing the configured base to the rest of the call.
SubmitAlt_KeepsBase ==
    /\ pc = "submit_alt"
    /\ \E resp \in LegacyResponses :
         LET a == ApiResult(resp, ParseApiReply(resp.body))
             n == NetSend(net, "submit_alt", rr.req[1], resp)
         IN IF a.pending THEN Retry(a.o, n)
            ELSE IF a.res.ok THEN LegacySubmitted(loc.base_url, a.res.val, n)
            ELSE Done(Err(loc.e), loc, n)

\* post_with_base_fallback, the POST against the alternate base.
SubmitAlt ==
    /\ pc = "submit_alt"
    /\ \E resp \in LegacyResponses :
         LET a == ApiResult(resp, ParseApiReply(resp.body))
             n == NetSend(net, "submit_alt", rr.req[1], resp)
         IN IF a.pending THEN Retry(a.o, n)
            ELSE IF a.res.ok THEN LegacySubmitted(loc.alt_base, a.res.val, n)
            ELSE Done(Err(loc.e), loc, n)

\* The GET of {base}/tasks/{request_id} (client.rs:194).
Poll ==
    /\ pc = "poll"
    /\ \E resp \in LegacyResponses :
         LET a == ApiResult(resp, ParseApiReply(resp.body))
             n == NetSend(net, "poll", rr.req[1], resp)
         IN IF a.pending THEN Retry(a.o, n)
            ELSE IF a.res.ok THEN LegacyLoop(a.res.val, loc, n)
            ELSE Done(Err(a.res.msg), loc, n)

StatusQuery == <<"log=true", "&", "request=true">>

MonitorUrl_PreferJobId(job, retrieve_base) ==
    IF IsSome(job.job_id)
    THEN Some(retrieve_base \o <<"/", "jobs", "/", job.job_id[1]>>)
    ELSE monitor_url(job)

\* The poll URL of the Modern protocol (client.rs:235-242).
MonitorUrl(job, retrieve_base) ==
    IF IsSome(monitor_url(job)) THEN monitor_url(job)
    ELSE IF IsSome(job.job_id)
         THEN Some(retrieve_base \o <<"/", "jobs", "/", job.job_id[1]>>)
         ELSE None

\* Execute with the delay of the poll loop started at zero.
Execute_StartsAtZero ==
    /\ pc = "execute"
    /\ \E resp \in ExecutionResponses :
         LET a == ApiResult(resp, ParseProcessingJob(resp.body))
             n == NetSend(net, "execute", rr.req[1], resp)
             m == MonitorUrl(a.res.val, loc.base_url \o <<"/", "retrieve", "/", "v1">>)
         IN IF a.pending THEN Retry(a.o, n)
            ELSE IF ~a.res.ok THEN Done(Err(a.res.msg), loc, n)
            ELSE IF m = None
                 THEN Done(Err(<<"missing monitor link in job submission response">>), loc, n)
            ELSE IF ~cfg.wait_until_complete
                 THEN Done(Err(<<"wait_until_complete=false is not yet supported">>),
                           [loc EXCEPT !.monitor_url = m[1]], n)
            ELSE Call("status", "GET", append_query(m[1], StatusQuery),
                      [loc EXCEPT !.monitor_url = m[1], !.sleep = 0], n)

\* retrieve_processing, the POST to {base}/retrieve/v1/processes/{d}/execution.
Execute ==
    /\ pc = "execute"
    /\ \E resp \in ExecutionResponses :
         LET a == ApiResult(resp, ParseProcessingJob(resp.body))
             n == NetSend(net, "execute", rr.req[1], resp)
             m == MonitorUrl(a.res.val, loc.base_url \o <<"/", "retrieve", "/", "v1">>)
         IN IF a.pending THEN Retry(a.o, n)
            ELSE IF ~a.res.ok THEN Done(Err(a.res.msg), loc, n)
            ELSE IF m = None
                 THEN Done(Err(<<"missing monitor link in job submission response">>), loc, n)
            ELSE IF ~cfg.wait_until_complete
                 THEN Done(Err(<<"wait_until_complete=false is not yet supported">>),
                           [loc EXCEPT !.monitor_url = m[1]], n)
            ELSE Call("status", "GET", append_query(m[1], StatusQuery),
                      [loc EXCEPT !.monitor_url = m[1], !.sleep = 1000], n)

ResultsUrl_IgnoreLink(job_status, monitor) == TrimEndSlash(monitor) \o <<"/", "results">>

\* The results resource of a successful job (client.rs:264-266).
ResultsUrl(job_status, monitor) ==
    IF IsSome(results_url(job_status)) THEN results_url(job_status)[1]
    ELSE TrimEndSlash(monitor) \o <<"/", "results">>

\* Status with "rejected" taken for a state of a job still in progress.
Status_RejectedKeepsPolling ==
    /\ pc = "status"
    /\ \E resp \in StatusResponses :
         LET a == ApiResult(resp, ParseProcessingJobStatus(resp.body))
             n0 == NetSend(net, "status", rr.req[1], resp)
             st == a.res.val.status
             n == NetSeen(n0, st)
         IN IF a.pending THEN Retry(a.o, n0)
            ELSE IF ~a.res.ok THEN Done(Err(a.res.msg), loc, n0)
            ELSE CASE st = "successful" ->
                        Call("results", "GET", ResultsUrl(a.res.val, loc.monitor_url),
                             [loc EXCEPT !.results_url = ResultsUrl(a.res.val, loc.monitor_url)], n)
                   [] st \in {"accepted", "running", "rejected"} ->
                        Call("status", "GET", append_query(loc.monitor_url, StatusQuery),
                             [loc EXCEPT !.sleep = backoff(loc.sleep, cfg.sleep_max)],
                             NetSleep(n, "poll", loc.sleep))
                   [] st \in {"failed", "dismissed", "deleted"} ->
                        Done(Err(<<"processing failed with status ", st>>), loc, n)
                   [] OTHER -> Done(Err(<<"unknown processing status [", st, "]">>), loc, n)

\* One turn of retrieve_processing's loop: the status GET and its match.
Status ==
    /\ pc = "status"
    /\ \E resp \in StatusResponses :
         LET a == ApiResult(resp, ParseProcessingJobStatus(resp.body))
             n0 == NetSend(net, "status", rr.req[1], resp)
             st == a.res.val.status
             n == NetSeen(n0, st)
         IN IF a.pending THEN Retry(a.o, n0)
            ELSE IF ~a.res.ok THEN Done(Err(a.res.msg), loc, n0)
            ELSE CASE st = "successful" ->
                        Call("results", "GET", ResultsUrl(a.res.val, loc.monitor_url),
                             [loc EXCEPT !.results_url = ResultsUrl(a.res.val, loc.monitor_url)], n)
                   [] st \in {"accepted", "running"} ->
                        Call("status", "GET", append_query(loc.monitor_url, StatusQuery),
                             [loc EXCEPT !.sleep = backoff(loc.sleep, cfg.sleep_max)],
                             NetSleep(n, "poll", loc.sleep))
                   [] st \in {"failed", "rejected", "dismissed", "deleted"} ->
                        Done(Err(<<"processing failed with status ", st>>), loc, n)
                   [] OTHER -> Done(Err(<<"unknown processing status [", st, "]">>), loc, n)

\* The GET of the results resource and to_remote_file (client.rs:267-276).
Results ==
    /\ pc = "results"
    /\ \E resp \in ResultsResponses :
         LET a == ApiResult(resp, ParseProcessingResults(resp.body))
             n == NetSend(net, "results", rr.req[1], resp)
         IN IF a.pending THEN Retry(a.o, n)
            ELSE IF ~a.res.ok THEN Done(Err(a.res.msg), loc, n)
            ELSE Resolve(to_remote_file(a.res.val, loc.results_url), loc, n)

\* A direct call of the public Client::download(file, target).
Download ==
    /\ pc = "idle"
    /\ cfg.entry = "download"
    /\ BeginDownload(file[1], loc, net)

\* OpenOptions of client.rs:376-382: append keeps the bytes, truncate drops them.
Open(k, mode_append) == IF mode_append /\ k # Absent THEN k ELSE 0

\* One GET of the download inside robust_request, then error_for_status and
\* the opening of the target (client.rs:369-382).
DownloadRequest ==
    /\ pc = "request"
    /\ \E resp \in DownloadResponses :
         LET o == robust_request(rr.tries, cfg.retry_max, resp)
             n == NetSend(net, "request", rr.req[1], resp)
         IN IF o.next = "continue" THEN Retry(o, n)
            ELSE IF o.next = "err" THEN Done(Err(<<"could not connect">>), loc, n)
            ELSE IF ~is_success(resp.status)
                 THEN Done(Err(<<"download request failed">>), loc, n)
            ELSE Goto("read", loc, rr, dl, file, Open(disk, dl.mode_append), n, result)

\* DownloadRead asking for more bytes than content_length at end of stream.
DownloadRead_StrictlyMore ==
    /\ pc = "read"
    /\ \/ \E n \in 1..MaxChunk :
            /\ disk + n <= file[1].content_length + MaxExtra
            /\ Goto("read", loc, rr, [dl EXCEPT !.downloaded = @ + n], file, disk + n, net, result)
       \/ IF dl.downloaded > file[1].content_length
          THEN Goto("done", loc, rr, dl, file, disk, net, Some(Ok(file[1])))
          ELSE Attempt(Resume(dl, disk), file[1], loc,
                       NetSleep(net, "download", cfg.sleep_max), disk)
       \/ IF dl.tries + 1 >= cfg.retry_max
          THEN Goto("done", loc, rr, [dl EXCEPT !.tries = @ + 1], file, disk, NetReadError(net),
                    Some(Err(<<"download interrupted">>)))
          ELSE Attempt(Resume(dl, disk), file[1], loc,
                       NetSleep(NetReadError(net), "download", cfg.sleep_max), disk)

\* One resp.read() of the copy loop and what follows it (client.rs:385-433):
\* n bytes, end of stream, or a read error.
DownloadRead ==
    /\ pc = "read"
    /\ \/ \E n \in 1..MaxChunk :
            /\ disk + n <= file[1].content_length + MaxExtra
            /\ Goto("read", loc, rr, [dl EXCEPT !.downloaded = @ + n], file, disk + n, net, result)
       \/ IF dl.downloaded >= file[1].content_length
          THEN Goto("done", loc, rr, dl, file, disk, net, Some(Ok(file[1])))
          ELSE Attempt(Resume(dl, disk), file[1], loc,
                       NetSleep(net, "download", cfg.sleep_max), disk)
       \/ IF dl.tries + 1 >= cfg.retry_max
          THEN Goto("done", loc, rr, [dl EXCEPT !.tries = @ + 1], file, disk, NetReadError(net),
                    Some(Err(<<"download interrupted">>)))
          ELSE Attempt(Resume(dl, disk), file[1], loc,
                       NetSleep(NetReadError(net), "download", cfg.sleep_max), disk)

\* The configurations explored.  Calls of retrieve: every url, key and flag
\* without retries; every url, key and flag with retries but no download; a
\* retrying retrieve that downloads.  Direct calls of download: every
\* content_length and every initial state of the target.
Configs ==
    [url : Urls, key : Keys, retry_max : {0, 1}, sleep_max : {500, 2000},
     wait_until_complete : BOOLEAN, target : BOOLEAN, entry : {"retrieve"}]
    \cup
    [url : Urls, key : Keys, retry_max : 2..MaxRetry, sleep_max : {2000},
     wait_until_complete : BOOLEAN, target : {FALSE}, entry : {"retrieve"}]
    \cup
    [url : {Host \o <<"/", "api", "/", "v2">>}, key : {<<" ", "u", ":", "p">>, <<"t", " ">>},
     retry_max : {2}, sleep_max : {2000},
     wait_until_complete : {TRUE}, target : {TRUE}, entry : {"retrieve"}]
    \cup
    [url : {Host \o <<"/", "api">>}, key : {<<" ", "u", ":", "p">>, <<"t", " ">>},
     retry_max : 0..MaxRetry, sleep_max : {2000},
     wait_until_complete : {TRUE}, target : {TRUE}, entry : {"download"}]

Init ==
    /\ cfg \in Configs
    /\ pc = "idle"
    /\ loc = Loc0
    /\ rr = Rr0
    /\ dl = Dl0
    /\ disk \in IF cfg.entry = "download" THEN {Absent} \cup 0..(MaxLen + 1) ELSE {Absent, 1}
    /\ file \in IF cfg.entry = "download"
                THEN {Some(RemoteFile(AbsLocation, c)) : c \in 0..MaxLen} ELSE {None}
    /\ net = Net0(disk)
    /\ result = None
    /\ other = None

Next ==
    \/ Retrieve
    \/ Submit
    \/ SubmitAlt
    \/ Poll
    \/ Execute
    \/ Status
    \/ Results
    \/ Download
    \/ DownloadRequest
    \/ DownloadRead

Spec == Init /\ [][Next]_vars

\* Protocol selection on every credential of at most MaxKeyLen characters.
KeyChars == {"a", ":", " "}

AllKeys == UNION {[1..n -> KeyChars] : n \in 0..MaxKeyLen}

InitKey ==
    /\ cfg \in [url : {Host \o <<"/", "api">>}, key : AllKeys, retry_max : {1},
                sleep_max : {2000}, wait_until_complete : {TRUE}, target : {FALSE},
                entry : {"retrieve"}]
    /\ pc = "idle"
    /\ loc = Loc0
    /\ rr = Rr0
    /\ dl = Dl0
    /\ disk = Absent
    /\ file = None
    /\ net = Net0(disk)
    /\ result = None
    /\ other = None

NextKey == Retrieve

SpecKey == InitKey /\ [][NextKey]_vars

\* Two calls of retrieve on one Client, interleaved at every request.
Frame == [pc |-> pc, loc |-> loc, rr |-> rr, dl |-> dl, file |-> file, disk |-> disk,
          net |-> net, result |-> result]

\* The scheduler suspends the running call and resumes the other one: each
\* call keeps its own locals (client.rs:168-169, 362, 499) and target file.
Switch ==
    /\ other # None
    /\ pc' = other[1].pc
    /\ loc' = other[1].loc
    /\ rr' = other[1].rr
    /\ dl' = other[1].dl
    /\ file' = other[1].file
    /\ disk' = other[1].disk
    /\ net' = other[1].net
    /\ result' = other[1].result
    /\ other' = Some(Frame)
    /\ UNCHANGED cfg

InitPair ==
    /\ cfg \in [url : {Host \o <<"/", "api">>}, key : {<<" ", "u", ":", "p">>},
                retry_max : {MaxRetry}, sleep_max : {2000},
                wait_until_complete : {TRUE}, target : {FALSE}, entry : {"retrieve"}]
    /\ pc = "idle"
    /\ loc = Loc0
    /\ rr = Rr0
    /\ dl = Dl0
    /\ disk = Absent
    /\ file = None
    /\ net = Net0(disk)
    /\ result = None
    /\ other = Some(Frame)

NextPair ==
    \/ Retrieve
    \/ Submit
    \/ SubmitAlt
    \/ Poll
    \/ Switch

SpecPair == InitPair /\ [][NextPair]_vars

\* urljoin on every base and path of at most MaxPath segments.
RECURSIVE Texts(_, _)
Texts(alphabet, n) ==
    IF n = 0 THEN {<<>>}
    ELSE Texts(alphabet, n - 1)
         \cup {Append(t, a) : t \in Texts(alphabet, n - 1), a \in alphabet}

InitJoin ==
    /\ cfg \in [entry : {"urljoin"},
                url : {Host \o t : t \in Texts({"/", "a"}, MaxPath - 1)},
                path : Texts({"/", "f", "http:", "https:"}, MaxPath)]
    /\ pc = "idle"
    /\ loc = Loc0
    /\ rr = Rr0
    /\ dl = Dl0
    /\ disk = Absent
    /\ file = None
    /\ net = Net0(disk)
    /\ result = None
    /\ other = None

Join ==
    /\ pc = "idle"
    /\ cfg.entry = "urljoin"
    /\ Goto("done", loc, rr, dl, file, disk, net, Some(Ok(urljoin(cfg.url, cfg.path))))

NextJoin == Join

SpecJoin == InitJoin /\ [][NextJoin]_vars

\* backoff iterated at most MaxSteps times from every delay and ceiling
\* below; the delay of the poll loops starts at one second (client.rs:168).
InitialDelay == 1000

Delays == {0, 500, InitialDelay, 2000, 3000, 4000}

Ceilings == {500, 1000, 2000, 3000, 5000}

InitBackoff ==
    /\ cfg \in [entry : {"backoff"}, current : Delays, sleep_max : Ceilings]
    /\ pc = "idle"
    /\ loc = [Loc0 EXCEPT !.sleep = cfg.current]
    /\ rr = Rr0
    /\ dl = Dl0
    /\ disk = Absent
    /\ file = None
    /\ net = Net0(disk)
    /\ result = None
    /\ other = None

\* thread::sleep(sleep); sleep = backoff(sleep, self.sleep_max)
Backoff ==
    /\ pc = "idle"
    /\ cfg.entry = "backoff"
    /\ net.slept["poll"] < MaxSteps
    /\ Goto("idle", [loc EXCEPT !.sleep = backoff(loc.sleep, cfg.sleep_max)], rr, dl, file, disk,
            NetSleep(net, "poll", loc.sleep), result)

NextBackoff == Backoff

SpecBackoff == InitBackoff /\ [][NextBackoff]_vars

\* ------------------------------------------------------------------ claims
Last(q) == q[Len(q)]

\* The phase of a retrieval a request belongs to.
Rank(k) == CASE k \in {"submit", "submit_alt", "execute"} -> 1
             [] k \in {"poll", "status"} -> 2
             [] k = "results" -> 3
             [] k = "request" -> 4

\* Requests are sent in the order submit, polls, results fetch, download.
Ordered ==
    \A k \in Kinds : net'.sent[k] > net.sent[k] =>
        \A k2 \in Kinds : Rank(k2) > Rank(k) => net.sent[k2] = 0

SuccessObserved == net.seen # <<>> /\ Last(net.seen) \in {"completed", "successful"}

NoTargetNoDownload ==
    (cfg.entry = "retrieve" /\ ~cfg.target) =>
        /\ net.sent["request"] = 0
        /\ disk = net.disk0
        /\ (pc = "done" /\ IsSome(file) => result = Some(Ok(file[1])))

\* C1 as stated: in every retrieve call the requests are ordered submit,
\* polls, results fetch, download; a download GET is issued only if a target
\* was supplied and only after a terminal success state was observed and the
\* RemoteFile resolved; without a target retrieve returns the RemoteFile with
\* no download request and no file written.
C1_Original ==
    /\ [][cfg.entry = "retrieve" => Ordered]_vars
    /\ [](cfg.entry = "retrieve" /\ net.sent["request"] > 0 =>
             cfg.target /\ IsSome(file) /\ SuccessObserved)
    /\ []NoTargetNoDownload

\* C1 amended: as C1, but a terminal success state precedes the download
\* only when wait_until_complete is set; without it the Legacy protocol
\* resolves the RemoteFile from the submission reply, whatever its state.
C1_Ordered ==
    /\ [][cfg.entry = "retrieve" => Ordered]_vars
    /\ [](cfg.entry = "retrieve" /\ net.sent["request"] > 0 =>
             /\ cfg.target
             /\ IsSome(file)
             /\ cfg.wait_until_complete => SuccessObserved)
    /\ []NoTargetNoDownload

C1_Witness ==
    /\ cfg.entry = "retrieve"
    /\ pc = "done"
    /\ result # None /\ result[1].ok
    /\ net.sent["poll"] > 0
    /\ net.sent["request"] > 0

DownloadReturnedOk ==
    /\ pc = "done"
    /\ result # None /\ result[1].ok
    /\ cfg.entry = "download" \/ cfg.target

\* C2: download returns success only when the size of the target on disk is
\* at least content_length, whatever the initial state of the target and
\* whatever the server sent.
C2_SuccessMeansComplete == DownloadReturnedOk => disk >= file[1].content_length

DownloadSent == net'.sent["request"] > net.sent["request"]

\* The Range offset the next download request must carry: none on a first
\* attempt unless the target exists and is shorter than content_length, the
\* size on disk after every interrupted or short stream.
ExpectedRange ==
    IF net.slept["download"] = 0
    THEN IF net.disk0 # Absent /\ net.disk0 < file[1].content_length
         THEN Some(net.disk0) ELSE None
    ELSE Some(disk)

\* C3: a download request carries a Range header iff the transfer is
\* resuming, and its offset is the size of the target on disk when the
\* request is issued: the pre-existing size on the first request when the
\* file exists and is shorter than content_length, the re-measured size
\* after every interrupted or short stream.
C3_RangeIsDiskSize ==
    [][DownloadSent =>
         /\ net'.last[1].range = ExpectedRange
         /\ IsSome(net'.last[1].range) <=> dl.mode_append
         /\ IsSome(net'.last[1].range) => net'.last[1].range[1] = disk]_vars

C3_Witness ==
    /\ cfg.entry = "download"
    /\ net.disk0 = 1
    /\ file[1].content_length = 3
    /\ net.slept["download"] = 1
    /\ net.sent["request"] = 2
    /\ net.last[1].range = Some(2)

RetriableStatuses == {408, 429, 500, 502, 503, 504}

AllRetriable(q) == q # <<>> /\ \A i \in 1..Len(q) : q[i] \in RetriableStatuses

\* C4: with max_attempts >= 1 and a transport that only answers retriable
\* statuses, a poll call or a download call never sends more than
\* max_attempts requests and ends in an error at the max_attempts-th; with
\* max_attempts = 1 it fails after exactly one request and without sleeping.
C4_BudgetEndsCall ==
    LET c == net.call
    IN (cfg.retry_max >= 1 /\ c.kind \in {"poll", "status", "request"} /\ AllRetriable(c.statuses)) =>
         /\ Len(c.statuses) <= cfg.retry_max
         /\ Len(c.statuses) < cfg.retry_max => pc = c.kind /\ c.slept = Len(c.statuses)
         /\ Len(c.statuses) = cfg.retry_max =>
              /\ pc = "done"
              /\ ~result[1].ok
              /\ c.slept = cfg.retry_max - 1
         /\ (cfg.retry_max = 1 /\ c.kind = "request") => net.slept["download"] = 0

C4_Witness ==
    /\ pc = "done"
    /\ cfg.retry_max = 2
    /\ net.call.kind = "poll"
    /\ net.call.statuses = <<500, 500>>
    /\ ~result[1].ok

\* Every request of the Legacy protocol so far was answered by a reply.
Scripted == net.sent["submit"] + net.sent["submit_alt"] + net.sent["poll"] = Len(net.seen)

IsAbsolute(u) == u # <<>> /\ u[1] \in {"http:", "https:"}

\* A location as the caller sees it: absolute as it is, relative appended
\* to the base with one "/" between them.
Located(base, u) ==
    IF IsAbsolute(u) THEN u
    ELSE IF u # <<>> /\ u[1] = "/" THEN TrimEndSlash(base) \o u
    ELSE TrimEndSlash(base) \o <<"/">> \o u

CompletedWithResult ==
    /\ Last(net.seen) = "completed"
    /\ IsSome(loc.reply[1].result)
    /\ DOMAIN loc.reply[1].result[1] = {"location", "content_length"}

\* C5: in the Legacy poll loop, when the replies s0..sn are queued or
\* running up to s(n-1) and sn is completed, exactly n polls were sent, each
\* a GET of {base}/tasks/{request_id} preceded by one sleep, none follows
\* the completed reply, and the RemoteFile returned has the location of the
\* completed reply's result.
C5_PollLoop ==
    /\ [](loc.proto = "legacy" /\ cfg.wait_until_complete /\ Scripted /\ net.seen # <<>> =>
            /\ \A i \in 1..(Len(net.seen) - 1) : net.seen[i] \in {"queued", "running"}
            /\ net.slept["poll"] = net.sent["poll"] + (IF pc = "poll" THEN 1 ELSE 0)
            /\ net.sent["request"] = 0 => net.slept["retry"] = 0
            /\ Last(net.seen) = "completed" =>
                 /\ net.sent["poll"] = Len(net.seen) - 1
                 /\ net.slept["poll"] = Len(net.seen) - 1
            /\ CompletedWithResult =>
                 /\ IsSome(file)
                 /\ file[1].location = Located(cfg.url, loc.reply[1].result[1].location)
                 /\ ~cfg.target => pc = "done" /\ result = Some(Ok(file[1])))
    /\ [][(Scripted /\ net'.sent["poll"] > net.sent["poll"]) =>
            /\ net'.last[1].method = "GET"
            /\ net'.last[1].url = TrimEndSlash(cfg.url)
                                  \o <<"/", "tasks", "/", loc.reply[1].request_id[1]>>]_vars

C5_Witness ==
    /\ Scripted
    /\ cfg.wait_until_complete
    /\ net.seen = <<"queued", "running", "completed">>
    /\ net.sent["poll"] = 2
    /\ pc = "done"
    /\ result[1].ok

Successful == loc.proto = "modern" /\ net.seen # <<>> /\ Last(net.seen) = "successful"

ResultsLink(o) ==
    IF "links" \in DOMAIN o /\ \E i \in 1..Len(o.links) : o.links[i].rel = <<"results">>
    THEN Some(o.links[CHOOSE i \in 1..Len(o.links) :
                        /\ o.links[i].rel = <<"results">>
                        /\ \A j \in 1..(i - 1) : o.links[j].rel # <<"results">>].href)
    ELSE None

\* What C6 says beside the number of GETs: no status poll follows a
\* successful status, the results GET goes to the status reply's "results"
\* link or to {monitor_url}/results, and the RemoteFile is built from the
\* results reply.
C6_Fetch ==
    /\ [][Successful => net'.sent["status"] = net.sent["status"]]_vars
    /\ [][net'.sent["results"] > net.sent["results"] =>
            /\ Successful
            /\ net'.last[1].method = "GET"
            /\ net'.last[1].url =
                 IF net.sent["results"] > 0 THEN net.last[1].url
                 ELSE IF IsSome(ResultsLink(net.resp[1].body.obj))
                      THEN ResultsLink(net.resp[1].body.obj)[1]
                      ELSE TrimEndSlash(loc.monitor_url) \o <<"/", "results">>]_vars
    /\ [][(Successful /\ file = None /\ file' # None) =>
            /\ file'[1].location
                 = Located(net'.last[1].url, Trim(net'.resp[1].body.obj.asset.href))
            /\ file'[1].content_length = net'.resp[1].body.obj.asset.size]_vars
    /\ [](Successful /\ pc # "results" => net.sent["results"] >= 1)

\* C6 as stated: once a status poll returns successful, exactly one GET is
\* sent to the results resource, no further status poll follows, and the
\* RemoteFile is built from that results reply.
C6_Original == C6_Fetch /\ [](Successful => net.sent["results"] <= 1)

\* C6 amended: once a status poll returns successful there is exactly one
\* results fetch; its GET is sent again only after a transport failure or a
\* retriable status, at most retry_max requests in all.
C6_OneFetch ==
    /\ C6_Fetch
    /\ [](Successful =>
            /\ net.sent["results"] <= IF cfg.retry_max > 1 THEN cfg.retry_max ELSE 1
            /\ net.call.kind = "results" =>
                 /\ Len(net.call.statuses) = net.sent["results"]
                 /\ \A i \in 1..(Len(net.call.statuses) - 1) :
                        net.call.statuses[i] \in RetriableStatuses \cup {0})

C6_Witness ==
    /\ Successful
    /\ net.sent["results"] = 2
    /\ file # None
    /\ pc = "done"
    /\ result[1].ok

MonitorLink(o) ==
    IF "links" \in DOMAIN o /\ \E i \in 1..Len(o.links) : o.links[i].rel = <<"monitor">>
    THEN Some(o.links[CHOOSE i \in 1..Len(o.links) :
                        /\ o.links[i].rel = <<"monitor">>
                        /\ \A j \in 1..(i - 1) : o.links[j].rel # <<"monitor">>].href)
    ELSE None

JobId(o) == IF "job_id" \in DOMAIN o THEN Some(o.job_id)
            ELSE IF "jobID" \in DOMAIN o THEN Some(o.jobID) ELSE None

Submitted ==
    /\ loc.proto = "modern"
    /\ net.call.kind = "execute"
    /\ net.resp # None
    /\ net.resp[1].ok /\ net.resp[1].status = 200 /\ net.resp[1].body.fmt = "json"

\* C7: the poll URL of the Modern protocol is the "monitor" link of the
\* submission response when there is one, else {base}/retrieve/v1/jobs/{job_id}
\* when job_id is present; with neither the retrieval fails without a poll.
C7_PollUrl ==
    /\ [][net'.sent["status"] > net.sent["status"] =>
            /\ net'.last[1].method = "GET"
            /\ net'.last[1].url =
                 IF net.sent["status"] > 0 THEN net.last[1].url
                 ELSE (IF IsSome(MonitorLink(net.resp[1].body.obj))
                       THEN MonitorLink(net.resp[1].body.obj)[1]
                       ELSE TrimEndSlash(cfg.url)
                            \o <<"/", "retrieve", "/", "v1", "/", "jobs", "/",
                                 JobId(net.resp[1].body.obj)[1]>>)
                      \o <<"?", "log=true", "&", "request=true">>]_vars
    /\ [](Submitted /\ MonitorLink(net.resp[1].body.obj) = None
                    /\ JobId(net.resp[1].body.obj) = None =>
            /\ pc = "done"
            /\ ~result[1].ok
            /\ net.sent["status"] = 0)

C7_Witness ==
    /\ cfg.url = Host \o <<"/", "api", "/">>
    /\ net.sent["status"] = 2
    /\ net.last[1].url = Host \o <<"/", "api", "/", "retrieve", "/", "v1", "/", "jobs", "/", "abc",
                                  "?", "log=true", "&", "request=true">>

HasAlternate == ~ContainsApiV2(TrimEndSlash(cfg.url)) /\ api_v2_variant(cfg.url) # None

\* C8: the Legacy submission falls back to the /v2-qualified base (where the
\* configured base has one) exactly when the POST to {base}/resources/{dataset}
\* failed with HTTP 404: no other failure, whatever the text of its body,
\* leads to the fallback POST, and a call makes at most one fallback.
C8_FallbackOn404Only ==
    /\ [][(pc = "submit" /\ pc' # "submit" /\ net'.seen = <<>>) =>
            (pc' = "submit_alt" <=>
               HasAlternate /\ net'.resp[1].ok /\ net'.resp[1].status = 404)]_vars
    /\ [][(pc' = "submit_alt" /\ pc # "submit_alt") => pc = "submit"]_vars

\* The position of the first colon of k, 0 when there is none.
FirstColon(k) ==
    IF \E i \in 1..Len(k) : k[i] = ":"
    THEN CHOOSE i \in 1..Len(k) : k[i] = ":" /\ \A j \in 1..(i - 1) : k[j] # ":"
    ELSE 0

ExpectedLegacy(k) ==
    /\ FirstColon(k) > 0
    /\ \E j \in 1..(FirstColon(k) - 1) : k[j] # " "
    /\ \E j \in (FirstColon(k) + 1)..Len(k) : k[j] # " "

\* C9: the protocol is a function of the credential: Legacy exactly when
\* both sides of its first colon are non-empty after trimming, Modern for
\* every other credential.
C9_Selection ==
    (cfg.entry = "retrieve" /\ pc # "idle") =>
        /\ loc.proto \in {"legacy", "modern"}
        /\ loc.proto = "legacy" <=> ExpectedLegacy(cfg.key)
        /\ pc = IF ExpectedLegacy(cfg.key) THEN "submit" ELSE "execute"

C9_Witness ==
    /\ cfg.key = <<"a", ":", ":", " ">>
    /\ pc = "submit"
    /\ loc.proto = "legacy"

ExpectedAuth(k) ==
    IF ExpectedLegacy(k)
    THEN [scheme |-> "basic",
          user |-> Trim(SubSeq(k, 1, FirstColon(k) - 1)),
          secret |-> Trim(SubSeq(k, FirstColon(k) + 1, Len(k)))]
    ELSE [scheme |-> "PRIVATE-TOKEN", user |-> <<>>, secret |-> Trim(k)]

\* C10: every request of a retrieval (submission, polls, results fetch,
\* download) carries the authentication of the selected protocol: Basic with
\* the trimmed (id, secret) for Legacy, the whole trimmed credential in the
\* PRIVATE-TOKEN header for Modern; the scheme never changes within a client.
C10_Auth ==
    /\ [](net.last # None =>
            /\ net.last[1].auth = ExpectedAuth(cfg.key)
            /\ cfg.entry = "retrieve" =>
                 (net.last[1].auth.scheme = "basic" <=> loc.proto = "legacy"))
    /\ [][(net.last # None /\ net'.last # None) =>
            net'.last[1].auth.scheme = net.last[1].auth.scheme]_vars

C10_Witness ==
    /\ cfg.entry = "retrieve"
    /\ cfg.key = <<" ", "u", ":", "p">>
    /\ net.sent["poll"] > 0
    /\ net.sent["request"] > 0
    /\ net.last[1].auth = [scheme |-> "basic", user |-> <<"u">>, secret |-> <<"p">>]

ModernNoWait == cfg.entry = "retrieve" /\ loc.proto = "modern" /\ ~cfg.wait_until_complete

\* C11: with the Modern protocol and wait_until_complete = false, retrieve
\* fails with the configuration error before any request is sent to the
\* backend, and that error is the result whatever the backend would answer.
C11_FailsBeforeSubmission ==
    ModernNoWait =>
        /\ net.sent["execute"] = 0
        /\ pc = "done" => result = Some(Err(<<"wait_until_complete=false is not yet supported">>))

\* The Legacy backend reported state=failed with an error {message, reason}.
FailedWithError ==
    /\ loc.proto = "legacy"
    /\ net.seen # <<>>
    /\ Last(net.seen) = "failed"
    /\ IsSome(loc.reply[1].error)
    /\ IsSome(loc.reply[1].error[1].message)
    /\ IsSome(loc.reply[1].error[1].reason)

\* The call is over with a fatal error whose text contains the message and
\* the reason of the failed reply, and no download was made.
RejectedWithBoth ==
    /\ pc = "done"
    /\ ~result[1].ok
    /\ Contains(result[1].msg, <<loc.reply[1].error[1].message[1]>>)
    /\ Contains(result[1].msg, <<loc.reply[1].error[1].reason[1]>>)
    /\ net.sent["request"] = 0
    /\ disk = net.disk0

NoRequestAfterFailed ==
    (net.seen # <<>> /\ Last(net.seen) = "failed") => \A k \in Kinds : net'.sent[k] = net.sent[k]

\* C12 as stated: a Legacy reply with state=failed and error {message m,
\* reason r}, be it the submission reply or a poll reply, ends retrieve with
\* a fatal error whose text contains m and r, with no further poll and no
\* download.
C12_Original ==
    /\ [](FailedWithError => RejectedWithBoth)
    /\ [][loc.proto = "legacy" => NoRequestAfterFailed]_vars

\* C12 amended: as C12 when wait_until_complete is set; without it the state
\* of the submission reply is not examined.
C12_FailedIsFatal ==
    /\ [](FailedWithError /\ cfg.wait_until_complete => RejectedWithBoth)
    /\ [][loc.proto = "legacy" /\ cfg.wait_until_complete => NoRequestAfterFailed]_vars

C12_Witness ==
    /\ cfg.wait_until_complete
    /\ net.seen = <<"queued", "failed">>
    /\ net.sent["poll"] = 1
    /\ pc = "done"
    /\ result[1].msg = <<"m", ". ", "r">>

\* A download ended in an error with its attempt budget used up.
BudgetExhausted ==
    /\ pc = "done"
    /\ IsSome(file)
    /\ cfg.entry = "download" \/ cfg.target
    /\ ~result[1].ok
    /\ dl.tries >= cfg.retry_max

\* C13: a download whose attempt budget is exhausted before the expected
\* size is reached ends with the transfer-incomplete error, which reports the
\* bytes downloaded and content_length, whichever failures used the budget up.
C13_ReportsBytes ==
    BudgetExhausted =>
        /\ Len(result[1].msg) = 4
        /\ result[1].msg[2] = (IF disk = Absent THEN 0 ELSE disk)
        /\ result[1].msg[4] = file[1].content_length

\* The delay of the poll loop after k sleeps, started at one second.
RECURSIVE Delay(_, _)
Delay(k, max) == IF k = 0 THEN 1000 ELSE backoff(Delay(k - 1, max), max)

Failures(q) == Cardinality({i \in 1..Len(q) : q[i] \in RetriableStatuses \cup {0}})

\* The mutable state of a Legacy call is a function of that call's own
\* requests and replies: the attempt counter counts the failures answered to
\* its current request, the delay is the backoff of its own sleeps, the
\* state it holds is the last one it was sent, its base URL is the alternate
\* one exactly when its own fallback POST was made.
OwnState(f) ==
    /\ f.pc \in {"submit", "submit_alt", "poll"} =>
         /\ f.net.call.kind = f.pc
         /\ f.rr.tries = Failures(f.net.call.statuses)
         /\ f.rr.tries = Len(f.net.call.statuses)
    /\ f.net.seen # <<>> =>
         /\ f.loc.sleep = Delay(f.net.slept["poll"], cfg.sleep_max)
         /\ f.loc.reply[1].state = Last(f.net.seen)
         /\ f.loc.base_url = IF f.net.sent["submit_alt"] > 0
                             THEN TrimEndSlash(cfg.url) \o <<"/", "v2">>
                             ELSE TrimEndSlash(cfg.url)
    /\ f.pc = "done" /\ f.result[1].ok =>
         /\ Last(f.net.seen) = "completed"
         /\ f.result[1].val = f.file[1]

\* C14: two retrieval calls running concurrently on one Client share no
\* mutable state: the Client is never written, a step of one call leaves the
\* attempt counter, backoff delay, last-seen state and base URL of the other
\* untouched, and in every interleaving the state and result of each call
\* are those determined by its own requests and replies, as when run alone.
C14_NoInterference ==
    /\ [](OwnState(Frame) /\ OwnState(other[1]))
    /\ [][cfg' = cfg]_vars
    /\ [][other' = other \/ (other' = Some(Frame) /\ Frame' = other[1])]_vars

C14_Witness ==
    /\ other # None
    /\ pc = "submit" /\ rr.tries = 0 /\ net.sent["submit"] = 0
    /\ other[1].pc = "poll"
    /\ other[1].rr.tries = 1
    /\ other[1].loc.sleep = 1500
    /\ other[1].loc.base_url = Host \o <<"/", "api", "/", "v2">>

AbsoluteUrl(p) ==
    \/ StartsWith(p, <<"http:", "/", "/">>)
    \/ StartsWith(p, <<"https:", "/", "/">>)

RECURSIVE TrimStartSlash(_)
TrimStartSlash(p) == IF p # <<>> /\ p[1] = "/" THEN TrimStartSlash(Tail(p)) ELSE p

\* C15: urljoin returns an absolute path unchanged, whatever the base; for a
\* relative path it returns the base followed by the path once, with exactly
\* one "/" between them, whether or not the base ends or the path starts with
\* a "/".
C15_Join ==
    (cfg.entry = "urljoin" /\ pc = "done") =>
        result[1].val = IF AbsoluteUrl(cfg.path) THEN cfg.path
                        ELSE TrimEndSlash(cfg.url) \o <<"/">> \o TrimStartSlash(cfg.path)

Min(a, b) == IF a < b THEN a ELSE b

Max(a, b) == IF a > b THEN a ELSE b

BackoffStep == cfg.entry = "backoff" /\ net'.slept["poll"] > net.slept["poll"]

\* backoff(current, max) = min(max, max(1s, 1.5 * current)), in halves of a
\* millisecond.
BackoffFormula ==
    BackoffStep => 2 * loc'.sleep = Min(2 * cfg.sleep_max, Max(2 * 1000, 3 * loc.sleep))

StaysAtMax == (BackoffStep /\ loc.sleep = cfg.sleep_max) => loc'.sleep = cfg.sleep_max

RequestFailed ==
    /\ pc = "request"
    /\ DownloadSent
    /\ ~net'.resp[1].ok \/ ~is_success(net'.resp[1].status)

\* The copy loop ended without download returning success: a read error, or
\* the end of a stream that left the transfer incomplete.
StreamFailed ==
    /\ pc = "read"
    /\ pc' # "read"
    /\ ~(pc' = "done" /\ result'[1].ok)

\* The failures of the download so far, this one included: every request
\* sent before it failed too.
FailuresSoFar == net.sent["request"] + (IF pc = "request" THEN 1 ELSE 0)

\* The download's attempt counter is advanced and, while budget remains, a
\* new request is made whose Range offset is the size on disk.
CountedRetry ==
    /\ dl'.tries = dl.tries + 1
    /\ dl.tries + 1 < cfg.retry_max =>
         /\ pc' = "request"
         /\ rr'.req[1].range = Some(disk')
         /\ dl'.mode_append

\* C17: in a download a failed request, a non-success status and a read
\* error mid-stream each consume one attempt of the download's budget and
\* lead to a retry from the re-measured size on disk while budget remains;
\* none of them aborts the download at once.
C17_EachFailureRetries ==
    /\ [][((RequestFailed \/ StreamFailed) /\ FailuresSoFar < cfg.retry_max) => pc' = "request"]_vars
    /\ [][StreamFailed => CountedRetry]_vars

\* C18: when the stream of a download ends while the size of the target on
\* disk is still below content_length, download does not report success: it
\* counts one attempt, re-measures the size on disk, and while budget remains
\* sends another request with that size as Range offset.
C18_ShortStreamRetries ==
    [][(pc = "read" /\ pc' # "read" /\ disk < file[1].content_length) =>
         /\ ~(pc' = "done" /\ result'[1].ok)
         /\ CountedRetry]_vars

\* A resumed request was answered by the whole file: the server ignored the
\* Range header and sent content_length bytes from byte 0.
RangeIgnored ==
    /\ IsSome(dl.range_from)
    /\ dl.range_from[1] > 0
    /\ dl.downloaded - dl.range_from[1] = file[1].content_length

\* C19: when the server ignores the Range header of a resumed request and
\* resends the body from byte 0, the bytes are not appended after those on
\* disk: on success the target is no larger than content_length.
C19_NoOvershoot ==
    (DownloadReturnedOk /\ RangeIgnored) => disk <= file[1].content_length

ApiKinds == {"submit", "submit_alt", "poll", "execute", "status", "results"}

\* A request of the call in progress was answered with status st.
Answered(st) ==
    /\ pc \in ApiKinds
    /\ net'.sent[pc] > net.sent[pc]
    /\ net'.resp[1].ok
    /\ net'.resp[1].status = st

NotRetried ==
    /\ pc' # pc
    /\ net'.slept = net.slept
    /\ \A k \in Kinds \ {"submit_alt"} : net'.sent[k] <= net.sent[k] + (IF k = pc THEN 1 ELSE 0)

\* The error reaches the caller of retrieve; the only request that may
\* follow is the Legacy base-path fallback after a 404 on the submission.
Propagated(st) ==
    \/ pc' = "done" /\ ~result'[1].ok
    \/ pc = "submit" /\ st = 404 /\ pc' = "submit_alt"

\* C20: a non-success status outside {408, 429, 500, 502, 503, 504} is never
\* retried: the call ends on that response without sleeping and its error
\* goes to the caller of retrieve, the Legacy 404 fallback being the only
\* request that may follow; a status of the set is retried.
C20_OnlyRetriableRetried ==
    [][\A st \in {400, 401, 403, 404, 408, 429, 500, 502, 503, 504} :
         Answered(st) =>
           IF st \in RetriableStatuses
           THEN rr.tries + 1 < cfg.retry_max =>
                  /\ pc' = pc
                  /\ rr'.req = rr.req
                  /\ net'.slept["retry"] = net.slept["retry"] + 1
           ELSE NotRetried /\ Propagated(st)]_vars

\* A new poll of the same loop begins: the step leaves the call pending on the
\* same kind of request with no response received yet.
NextPollBegins == /\ pc \in {"poll", "status"}
                  /\ pc' = pc
                  /\ net'.sent[pc] = net.sent[pc] + 1
                  /\ net'.call.statuses = <<>>

\* C21: the retry budget is scoped to one logical operation: the failures
\* absorbed by all the requests of one download never exceed retry_max (every
\* request after the first follows an absorbed failure), and the counter of the
\* failures is not restarted when the poll loop issues its next HTTP call.
C21_BudgetPerOperation ==
    /\ [](net.sent["request"] <= cfg.retry_max + 1)
    /\ [][NextPollBegins => rr'.tries >= rr.tries]_vars

\* The last reply of the poll loop reports a terminal failure or a state the
\* protocol does not know. The Legacy loop runs under wait_until_complete.
LoopFailed ==
    /\ net.seen # <<>>
    /\ IF loc.proto = "legacy"
       THEN cfg.wait_until_complete /\ Last(net.seen) \notin {"queued", "running", "completed"}
       ELSE Last(net.seen) \notin {"accepted", "running", "successful"}

ModernFailure == loc.proto = "modern" /\ Last(net.seen) \in {"failed", "rejected", "dismissed", "deleted"}

\* C22: in both protocols the poll loop ends with a fatal error, with no
\* further HTTP request and no download, as soon as a reply's state is a
\* terminal failure (Legacy failed; Modern failed, rejected, dismissed or
\* deleted, the error naming the status) or a state outside the protocol's
\* known states.
C22_FailureEndsLoop ==
    /\ [](LoopFailed =>
            /\ pc = "done"
            /\ ~result[1].ok
            /\ net.sent["request"] = 0
            /\ disk = net.disk0
            /\ (ModernFailure =>
                  result[1].msg = <<"processing failed with status ", Last(net.seen)>>))
    /\ [][LoopFailed => \A k \in Kinds : net'.sent[k] = net.sent[k]]_vars

C22_Witness ==
    /\ loc.proto = "modern"
    /\ net.seen = <<"running", "rejected">>
    /\ net.sent["status"] = 2
    /\ pc = "done"

\* The last reply of the Legacy poll loop is queued or running and carries no
\* request_id.
MissingRequestId ==
    /\ loc.proto = "legacy"
    /\ cfg.wait_until_complete
    /\ net.call.kind \in {"submit", "submit_alt", "poll"}
    /\ net.resp # None
    /\ net.resp[1].ok /\ net.resp[1].status = 200 /\ net.resp[1].body.fmt = "json"
    /\ "state" \in DOMAIN net.resp[1].body.obj
    /\ net.resp[1].body.obj.state \in {"queued", "running"}
    /\ "request_id" \notin DOMAIN net.resp[1].body.obj

\* C23: in the Legacy poll loop a queued or running reply without request_id
\* ends the call at once with a fatal protocol error: the loop does not sleep
\* for that reply (its sleeps are those of the replies before it) and sends
\* no further request.
C23_MissingRequestIdIsFatal ==
    /\ [](MissingRequestId =>
            /\ pc = "done"
            /\ result = Some(Err(<<"missing request_id while state=", net.resp[1].body.obj.state>>))
            /\ net.slept["poll"] = Len(net.seen) - 1
            /\ net.sent["request"] = 0)
    /\ [][MissingRequestId => /\ \A k \in Kinds : net'.sent[k] = net.sent[k]
                              /\ net'.slept = net.slept]_vars

C23_Witness ==
    /\ MissingRequestId
    /\ Len(net.seen) = 2
    /\ net.sent["poll"] >= 1
    /\ net.slept["poll"] = 1
    /\ pc = "done"

\* The JSON object of the last response received.
LastObject == net.resp[1].body.obj

\* The step receives a Legacy reply whose state is completed.
CompletedReceived ==
    /\ loc'.proto = "legacy"
    /\ Len(net'.seen) = Len(net.seen) + 1
    /\ Last(net'.seen) = "completed"

HasLocationAndLength(o) == "location" \in DOMAIN o /\ "content_length" \in DOMAIN o

\* The download information of a completed reply, as the caller expects it:
\* the nested result first, the top-level fields second, else nothing.
DownloadInfo(o, base) ==
    IF "result" \in DOMAIN o /\ HasLocationAndLength(o.result)
    THEN Some(RemoteFile(Located(base, o.result.location), o.result.content_length))
    ELSE IF HasLocationAndLength(o)
         THEN Some(RemoteFile(Located(base, o.location), o.content_length))
         ELSE None

\* C24: on a Legacy completed reply the RemoteFile is taken from the nested
\* result when it has location and content_length, else from the top-level
\* location and content_length; when neither is there the call fails with
\* "missing download info" and no download is attempted.
C24_DownloadInfoOrder ==
    [][CompletedReceived =>
         LET info == DownloadInfo(LastObject', loc'.base_url)
         IN IF info # None
            THEN /\ file' = info
                 /\ (cfg.target /\ cfg.retry_max > 0 => pc' = "request")
                 /\ (~cfg.target => pc' = "done" /\ result' = Some(Ok(info[1])))
            ELSE /\ pc' = "done"
                 /\ result' = Some(Err(<<"missing download info in API reply">>))
                 /\ file' = None
                 /\ net'.sent["request"] = 0
                 /\ disk' = net.disk0]_vars

C24_Witness ==
    /\ loc.proto = "legacy"
    /\ net.seen # <<>> /\ Last(net.seen) = "completed"
    /\ net.call.kind = "poll"
    /\ "result" \in DOMAIN LastObject
    /\ ~HasLocationAndLength(LastObject.result)
    /\ file = Some(RemoteFile(Located(loc.base_url, <<"g">>), 2))
    /\ result = Some(Ok(file[1]))

\* The /v2-qualified base of the host: every configured URL is on Host.
AlternateBase == Host \o <<"/", "api", "/", "v2">>

\* The base a Legacy call must use once its submission is accepted: the
\* alternate base when the fallback POST was sent, else the configured one.
EffectiveBase ==
    IF net.sent["submit_alt"] > 0 THEN AlternateBase ELSE TrimEndSlash(cfg.url)

\* The location a Legacy reply gives for the file, before any join.
ReplyLocation(r) ==
    IF IsSome(r.result) /\ HasLocationAndLength(r.result[1])
    THEN r.result[1].location
    ELSE r.location[1]

\* C25: after a successful base-path fallback every poll URL and every join
\* of a relative location uses the alternate base; without fallback they use
\* the configured base; the base does not change after the submission.
C25_BaseInEffect ==
    /\ [](pc = "poll" =>
            rr.req[1].url = EffectiveBase \o <<"/", "tasks", "/", loc.reply[1].request_id[1]>>)
    /\ [](loc.proto = "legacy" /\ IsSome(file) /\ cfg.entry = "retrieve" =>
            file[1].location = Located(EffectiveBase, ReplyLocation(loc.reply[1])))
    /\ [][net.seen # <<>> => loc'.base_url = loc.base_url]_vars

C25_Witness ==
    /\ net.sent["submit_alt"] > 0
    /\ net.sent["poll"] > 0
    /\ net.last[1].url = AlternateBase \o <<"/", "tasks", "/", "r1">>
    /\ file = Some(RemoteFile(AlternateBase \o <<"/", "f">>, 1))
    /\ result = Some(Ok(file[1]))

InProgressStates == {"queued", "running", "accepted"}

\* The step sleeps between two polls.
PollSleep == net'.slept["poll"] = net.slept["poll"] + 1

\* C26: in both poll loops a poll that follows an in-progress reply is sent
\* only after the loop has slept for that reply (one sleep per reply, whether
\* or not the state changed); the delay starts at one second, the k-th sleep
\* lasts backoff applied k-1 times to one second, and the delay advances once
\* per sleep and at no other moment.
C26_SleepBeforePoll ==
    /\ [](pc \in {"poll", "status"} =>
            /\ \A i \in 1..Len(net.seen) : net.seen[i] \in InProgressStates
            /\ net.slept["poll"] = Len(net.seen))
    /\ [][PollSleep =>
            /\ net'.last_sleep = Some(Delay(net.slept["poll"], cfg.sleep_max))
            /\ loc'.sleep = Delay(net'.slept["poll"], cfg.sleep_max)
            /\ pc' \in {"poll", "status"}
            /\ net'.call.statuses = <<>>]_vars
    /\ [][(~PollSleep /\ net.seen # <<>>) => loc'.sleep = loc.sleep]_vars

C26_Witness ==
    /\ net.seen = <<"queued", "queued", "completed">>
    /\ net.slept = [poll |-> 2, retry |-> 0, download |-> 0]
    /\ cfg.sleep_max = 2000
    /\ net.last_sleep = Some(1500)
    /\ pc = "done"

\* A direct download of a file announced with content_length 0, with at least
\* one attempt allowed.
EmptyFile ==
    /\ cfg.entry = "download"
    /\ cfg.retry_max >= 1
    /\ file[1].content_length = 0

\* Nothing has failed so far: no transport error, no non-success status, no
\* read error.
NothingFailed ==
    /\ net.read_errors = 0
    /\ net.slept["retry"] = 0
    /\ net.resp # None => net.resp[1].ok /\ is_success(net.resp[1].status)

\* C27: with content_length = 0 and at least one attempt allowed, a download
\* whose request and stream do not fail sends a single request and succeeds
\* when the stream ends, with no retry and no sleep, whether or not the
\* target exists beforehand.
C27_EmptyFileSucceeds ==
    (EmptyFile /\ NothingFailed) =>
        /\ net.sent["request"] <= 1
        /\ net.last_sleep = None
        /\ pc \in {"idle", "request", "read", "done"}
        /\ pc = "request" => net.sent["request"] = 0
        /\ pc = "done" => /\ result = Some(Ok(file[1]))
                          /\ net.sent["request"] = 1

C27_Witness ==
    /\ EmptyFile /\ NothingFailed
    /\ net.disk0 = 1
    /\ disk = 0
    /\ net.sent["request"] = 1
    /\ result = Some(Ok(file[1]))

\* The same case with no target beforehand.
C27_WitnessAbsent ==
    /\ EmptyFile /\ NothingFailed
    /\ net.disk0 = Absent
    /\ disk = 0
    /\ net.sent["request"] = 1
    /\ result = Some(Ok(file[1]))

\* A Legacy call made with wait_until_complete = false has its submission
\* reply.
SubmittedNoWait ==
    /\ loc.proto = "legacy"
    /\ ~cfg.wait_until_complete
    /\ net.seen # <<>>

\* The download information of a parsed Legacy reply, joined with base.
ReplyInfo(r, base) ==
    IF IsSome(r.result) /\ HasLocationAndLength(r.result[1])
    THEN Some(RemoteFile(Located(base, r.result[1].location), r.result[1].content_length))
    ELSE IF IsSome(r.location) /\ IsSome(r.content_length)
         THEN Some(RemoteFile(Located(base, r.location[1]), r.content_length[1]))
         ELSE None

\* What C28 says of the submission reply: it is the only reply, no poll is
\* sent, and the RemoteFile comes from it whatever its state, the call
\* failing with "missing download info" when it has none.
ResolvedFromSubmission ==
    /\ Len(net.seen) = 1
    /\ net.sent["poll"] = 0
    /\ IF ReplyInfo(loc.reply[1], EffectiveBase) # None
       THEN /\ file = ReplyInfo(loc.reply[1], EffectiveBase)
            /\ ~cfg.target => result = Some(Ok(file[1]))
       ELSE /\ result = Some(Err(<<"missing download info in API reply">>))
            /\ net.sent["request"] = 0
            /\ disk = net.disk0

\* C28 as stated: with wait_until_complete = false a Legacy retrieve never
\* polls and never sleeps, and resolves the RemoteFile from the submission
\* reply alone.
C28_Original ==
    SubmittedNoWait =>
        /\ ResolvedFromSubmission
        /\ net.last_sleep = None

\* C28: with wait_until_complete = false a Legacy retrieve never polls and
\* never sleeps between polls: it resolves the RemoteFile from the submission
\* reply alone, whatever its state, and fails with "missing download info"
\* when that reply has no location and size. Its only sleeps are those of
\* the retries of the submission and of the download.
C28_NoWaitResolvesAtOnce ==
    SubmittedNoWait =>
        /\ ResolvedFromSubmission
        /\ net.slept["poll"] = 0
        /\ loc.sleep = 0

C28_Witness ==
    /\ SubmittedNoWait
    /\ net.seen = <<"running">>
    /\ net.slept["retry"] = 1
    /\ file = Some(RemoteFile(Located(EffectiveBase, <<"g">>), 1))
    /\ result = Some(Ok(file[1]))

\* C29: every sleep of a retrieval (between polls, before the retry of a
\* request, between download attempts) lasts at most sleep_max, for every
\* ceiling, those below one second included.
C29_SleepsCapped ==
    net.last_sleep # None => net.last_sleep[1] <= cfg.sleep_max

====
